---- MODULE Spec2Model ----
(***************************************************************************)
(* Browser-side dashboard client: the search page (frontend/js/search.js)  *)
(* and the sessions page (the second script).  One browser tab is          *)
(* modelled: `page` is the document currently loaded; loading a document   *)
(* discards the previous document's timers, pending fetches, DOM and       *)
(* script globals.  sessionStorage and the backend command history         *)
(* survive navigation.  Every action is one event-loop turn: a handler     *)
(* runs from its start to its next await (or its end) without              *)
(* interleaving.                                                           *)
(* The repository's push script (push_to_github.sh, listed in              *)
(* SETUP_SUMMARY.md) is modelled beside it, step by step.                  *)
(***************************************************************************)
EXTENDS Naturals, Sequences, FiniteSets

VARIABLES
    page,           \* document loaded in the tab
    timers,         \* active setInterval / setTimeout timers, in creation order
    starts,         \* number of start...Updates() calls in this document
    filterPc,       \* initializeSearchFilters: "idle" | "fetching" | "done"
    typeOptions,    \* TRUE once the type-filter select holds loaded options
    inputs,         \* values of the search form: term, type, manufacturer, status, region
    sort,           \* checked radio of input[name="sort"]
    request,        \* query parameters of the most recent search fetch
    searchCalls,    \* performSearch invocations awaiting their response
    searchIssued,   \* number of performSearch invocations that issued a fetch
    appliedSearch,  \* highest issue number whose response was applied (history)
    results,        \* contents of #search-results
    summary,        \* text of #search-summary
    sessCalls,      \* updateSessions invocations awaiting a response
    sessIssued,     \* number of updateSessions invocations
    appliedSess,    \* highest issue number whose sessions response was applied
    sessionList,    \* contents of #session-list
    metrics,        \* #total-sessions and #unique-users
    selectedAsset,  \* script global selectedAsset of the loaded document
    storage,        \* sessionStorage item selectedAssetId
    dashReady,      \* the dashboard document has run its initialization
    lastSet,        \* argument of the most recent setSelection (history)
    consumed,       \* consumeSelection calls since the last setSelection (history)
    cmdLog,         \* per channel: history, countsByKind, total
    unseen,         \* per channel: backend commands no poll has reported yet
    recorded,       \* per channel: every event recorded since the last clear (history)
    evClock,        \* logical clock stamping command events
    scriptPc,       \* push_to_github.sh: the step it is at, "idle" when not run
    worktree,       \* paths of the files in the directory of the script
    gitignore,      \* .gitignore: whether it exists, and its lines
    index,          \* paths with changes staged in the git index
    committed,      \* this run of the script has created a commit
    pushed,         \* this run of the script has run git push
    reply,          \* answer read by the final confirmation
    exitStatus      \* exit status of the script

schedVars == <<timers, starts>>
filterVars == <<filterPc, typeOptions>>
searchVars == <<inputs, sort, request, searchCalls, searchIssued, appliedSearch,
                results, summary>>
sessVars == <<sessCalls, sessIssued, appliedSess, sessionList, metrics>>
bridgeVars == <<storage, lastSet, consumed>>
logVars == <<cmdLog, unseen, recorded, evClock>>
scriptVars == <<scriptPc, worktree, gitignore, index, committed, pushed, reply,
                exitStatus>>
browserVars == <<page, schedVars, filterVars, searchVars, sessVars,
                 selectedAsset, dashReady, bridgeVars, logVars>>
vars == <<browserVars, scriptVars>>

(***************************************************************************)
(* Bounds of the model.                                                    *)
(***************************************************************************)
MaxStarts == 2      \* start...Updates() calls per document
MaxSearches == 2    \* performSearch invocations per document
MaxSessCalls == 2   \* updateSessions invocations per document
MaxRecords == 3     \* backend commands executed in one run
MaxConsumes == 2    \* consumeSelection calls after one setSelection

(***************************************************************************)
(* Program constants.                                                      *)
(***************************************************************************)
SearchCommandsInterval == 2000
SessionsInterval == 10000
SessionCommandsInterval == 2000
FilterTimeout == 3000
HistoryLimit == 2   \* N: maximum retained history length of a channel

None == "none"
AssetIds == {"well_07", "pump_12"}
Channels == {"search", "session"}
SearchKinds == {"ftSearch", "ftTagvals"}
SessionKinds == {"read", "write"}
SortOrders == {"none", "status-asc", "status-desc"}

\* The search form.  A text is a sequence of characters; the choices of a
\* select or of a radio group are values of its options, "" being the
\* option for all.
Pump == <<"p", "u", "m", "p">>
Terms == {<<>>, <<" ">>, Pump, <<" ">> \o Pump \o <<" ">>}
Fields == {"type", "manufacturer", "status", "region"}
Choices(field) ==
    CASE field = "type" -> {"", "compressor"}
      [] field = "manufacturer" -> {"", "Siemens"}
      [] field = "status" -> {"", "maintenance"}
      [] field = "region" -> {"", "permian"}
EmptyInputs ==
    [term |-> <<>>, type |-> "", manufacturer |-> "", status |-> "", region |-> ""]

Max(a, b) == IF a >= b THEN a ELSE b

(***************************************************************************)
(* DOM contents.  The markup of the pages is not part of the scripts, so   *)
(* what a freshly loaded document shows is its own value.                  *)
(***************************************************************************)
Markup == [t |-> "markup"]
Loading == [t |-> "loading"]
ErrorPerformingSearch == [t |-> "error", text |-> "Error performing search"]
ServerError == [t |-> "error", text |-> "Error: data.error"]
NoAssetsFound == [t |-> "no assets"]
ReadyPrompt == [t |-> "ready"]
Searching == [t |-> "searching"]
ErrorLoadingSessions == [t |-> "error", text |-> "Error loading sessions"]
NoActiveSessions == [t |-> "no sessions"]

(***************************************************************************)
(* Command Log Tracker.                                                    *)
(***************************************************************************)
EmptyCounts == [k \in {} |-> 0]

EmptyLog == [history |-> <<>>, countsByKind |-> EmptyCounts, total |-> 0]

Bump(counts, kind) ==
    IF kind \in DOMAIN counts
    THEN [counts EXCEPT ![kind] = @ + 1]
    ELSE [k \in DOMAIN counts \cup {kind} |->
            IF k = kind THEN 1 ELSE counts[k]]

RECURSIVE Evict(_)
Evict(h) == IF Len(h) > HistoryLimit THEN Evict(Tail(h)) ELSE h

record(log, kind, ts) ==
    [history |-> Evict(Append(log.history, [kind |-> kind, timestamp |-> ts])),
     countsByKind |-> Bump(log.countsByKind, kind),
     total |-> log.total + 1]

RECURSIVE recordAll(_, _)
recordAll(log, events) ==
    IF events = <<>> THEN log
    ELSE recordAll(record(log, Head(events).kind, Head(events).timestamp),
                   Tail(events))

\* One poll of `channel`: every command the backend reports as new is
\* recorded.
updateRedisCommands(logs, channel, events) ==
    [logs EXCEPT ![channel] = recordAll(@, events)]

clearCommandHistory(logs, channel) == [logs EXCEPT ![channel] = EmptyLog]

\* Variants of the handlers with one slip each, for comparison.
updateSearchCommands_WrongChannel(logs, events) ==
    updateRedisCommands(logs, "session", events)

updateSearchCommands_Twice(logs, events) ==
    updateRedisCommands(updateRedisCommands(logs, "search", events),
                        "search", events)

clearSearchCommands_WrongChannel(logs) == clearCommandHistory(logs, "session")

updateSearchCommands(logs, events) == updateRedisCommands(logs, "search", events)

clearSearchCommands(logs) == clearCommandHistory(logs, "search")

updateSessionCommands(logs, events) == updateRedisCommands(logs, "session", events)

clearSessionCommands(logs) == clearCommandHistory(logs, "session")

Kinds(channel) == IF channel = "search" THEN SearchKinds ELSE SessionKinds

\* The backend executes a command of `kind` on behalf of `channel`.
BackendCommand(channel, kind) ==
    /\ evClock < MaxRecords
    /\ evClock' = evClock + 1
    /\ unseen' = [unseen EXCEPT ![channel] =
                     Append(@, [kind |-> kind, timestamp |-> evClock + 1])]
    /\ UNCHANGED <<page, schedVars, filterVars, searchVars, sessVars,
                   selectedAsset, dashReady, bridgeVars, cmdLog, recorded>>
    /\ UNCHANGED scriptVars

\* A poll of `channel` has reported the unseen commands.
Polled(channel) ==
    /\ unseen' = [unseen EXCEPT ![channel] = <<>>]
    /\ recorded' = [recorded EXCEPT ![channel] = @ \o unseen[channel]]
    /\ evClock' = evClock

(***************************************************************************)
(* Timers.                                                                 *)
(***************************************************************************)
Interval(action) ==
    CASE action = "updateSearchCommands" -> SearchCommandsInterval
      [] action = "updateSessions" -> SessionsInterval
      [] action = "updateSessionCommands" -> SessionCommandsInterval

setInterval(ts, action) ==
    Append(ts, [action |-> action, remaining |-> Interval(action)])

setTimeout(ts, action, delay) ==
    Append(ts, [action |-> action, remaining |-> delay])

Remove(ts, i) == SubSeq(ts, 1, i - 1) \o SubSeq(ts, i + 1, Len(ts))

clearTimeout(ts, action) ==
    IF \E i \in DOMAIN ts : ts[i].action = action
    THEN Remove(ts, CHOOSE i \in DOMAIN ts : ts[i].action = action)
    ELSE ts

Rearm(ts, i) == [ts EXCEPT ![i].remaining = Interval(ts[i].action)]

Due(i) == i \in DOMAIN timers /\ timers[i].remaining = 0

MinRemaining ==
    CHOOSE m \in {timers[i].remaining : i \in DOMAIN timers} :
        \A i \in DOMAIN timers : m <= timers[i].remaining

\* Time passes until the next timer is due.
Advance ==
    /\ timers # <<>>
    /\ \A i \in DOMAIN timers : timers[i].remaining > 0
    /\ timers' = [i \in DOMAIN timers |->
                    [timers[i] EXCEPT !.remaining = @ - MinRemaining]]
    /\ UNCHANGED <<page, starts, filterVars, searchVars, sessVars,
                   selectedAsset, dashReady, bridgeVars, logVars>>
    /\ UNCHANGED scriptVars

Init ==
    /\ page = None
    /\ timers = <<>>
    /\ starts = 0
    /\ filterPc = "idle"
    /\ typeOptions = FALSE
    /\ inputs = EmptyInputs
    /\ sort = "none"
    /\ request = <<>>
    /\ searchCalls = {}
    /\ searchIssued = 0
    /\ appliedSearch = 0
    /\ results = Markup
    /\ summary = Markup
    /\ sessCalls = {}
    /\ sessIssued = 0
    /\ appliedSess = 0
    /\ sessionList = Markup
    /\ metrics = Markup
    /\ selectedAsset = None
    /\ storage = None
    /\ dashReady = FALSE
    /\ lastSet = None
    /\ consumed = 0
    /\ cmdLog = [c \in Channels |-> EmptyLog]
    /\ unseen = [c \in Channels |-> <<>>]
    /\ recorded = [c \in Channels |-> <<>>]
    /\ evClock = 0
    /\ scriptPc = "idle"
    /\ worktree = {}
    /\ gitignore = [exists |-> FALSE, lines |-> <<>>]
    /\ index = {}
    /\ committed = FALSE
    /\ pushed = FALSE
    /\ reply = ""
    /\ exitStatus = "none"

(***************************************************************************)
(* A freshly loaded document: nothing of the previous one is left.         *)
(***************************************************************************)
FreshFilter == filterPc' = "idle" /\ typeOptions' = FALSE

FreshSearch ==
    /\ inputs' = EmptyInputs
    /\ sort' = "none"
    /\ request' = <<>>
    /\ searchCalls' = {}
    /\ searchIssued' = 0
    /\ appliedSearch' = 0
    /\ results' = Markup
    /\ summary' = Markup

FreshSessions ==
    /\ sessCalls' = {}
    /\ sessIssued' = 0
    /\ appliedSess' = 0
    /\ sessionList' = Markup
    /\ metrics' = Markup

(***************************************************************************)
(* Search page: initialization.                                            *)
(***************************************************************************)
\* startSearchUpdates() with `ts` the timers active before the call.
\* A startSearchUpdates that only registers the timer.
startSearchUpdates_IntervalOnly(ts) ==
    /\ UNCHANGED logVars
    /\ timers' = setInterval(ts, "updateSearchCommands")

startSearchUpdates(ts) ==
    /\ cmdLog' = updateSearchCommands(cmdLog, unseen["search"])
    /\ Polled("search")
    /\ timers' = setInterval(ts, "updateSearchCommands")

\* initializeSearchFilters() up to its first await: the abort timer is
\* armed and the suggestions fetch of field 'type' is issued.
initializeSearchFilters(ts) == setTimeout(ts, "abortFilterFetch", FilterTimeout)

\* A DOMContentLoaded handler that awaits initializeSearchFilters() before
\* it starts the polling.
OpenSearchPage_AwaitFilters ==
    /\ page' = "search"
    /\ filterPc' = "fetching"
    /\ typeOptions' = FALSE
    /\ timers' = initializeSearchFilters(<<>>)
    /\ starts' = 0
    /\ FreshSearch
    /\ FreshSessions
    /\ selectedAsset' = None
    /\ dashReady' = FALSE
    /\ UNCHANGED <<bridgeVars, logVars>>
    /\ UNCHANGED scriptVars

\* The search document is loaded and its DOMContentLoaded handler runs.
OpenSearchPage ==
    /\ page' = "search"
    /\ filterPc' = "fetching"
    /\ typeOptions' = FALSE
    /\ startSearchUpdates(initializeSearchFilters(<<>>))
    /\ starts' = 1
    /\ FreshSearch
    /\ FreshSessions
    /\ selectedAsset' = None
    /\ dashReady' = FALSE
    /\ UNCHANGED bridgeVars
    /\ UNCHANGED scriptVars

\* A further call of startSearchUpdates() in the loaded document.
StartSearchUpdates ==
    /\ page = "search"
    /\ starts < MaxStarts
    /\ starts' = starts + 1
    /\ startSearchUpdates(timers)
    /\ UNCHANGED <<page, filterVars, searchVars, sessVars, selectedAsset,
                   dashReady, bridgeVars>>
    /\ UNCHANGED scriptVars

\* The suggestions fetch resolves with a response (line 43), the abort
\* timer is cleared (line 46) and the status is looked at (line 48).
FilterHeaders(ok) ==
    /\ page = "search"
    /\ filterPc = "fetching"
    /\ timers' = clearTimeout(timers, "abortFilterFetch")
    /\ filterPc' = IF ok THEN "reading" ELSE "done"
    /\ UNCHANGED <<page, starts, typeOptions, searchVars, sessVars,
                   selectedAsset, dashReady, bridgeVars, logVars>>
    /\ UNCHANGED scriptVars

\* response.json() resolves or rejects (lines 53-66); "throw" is also a
\* missing select element (line 61).
FilterBody(outcome) ==
    /\ page = "search"
    /\ filterPc = "reading"
    /\ filterPc' = "done"
    /\ typeOptions' = (outcome = "options")
    /\ UNCHANGED <<page, schedVars, searchVars, sessVars, selectedAsset,
                   dashReady, bridgeVars, logVars>>
    /\ UNCHANGED scriptVars

\* The suggestions fetch rejects with a network error: line 46 is skipped
\* and the abort timer stays armed.
FilterFetchFails ==
    /\ page = "search"
    /\ filterPc = "fetching"
    /\ filterPc' = "done"
    /\ UNCHANGED <<page, schedVars, typeOptions, searchVars, sessVars,
                   selectedAsset, dashReady, bridgeVars, logVars>>
    /\ UNCHANGED scriptVars

\* The 3 s timer fires controller.abort(): a fetch still pending rejects
\* with AbortError (lines 67-69).
FireAbort(i) ==
    /\ Due(i)
    /\ timers[i].action = "abortFilterFetch"
    /\ timers' = Remove(timers, i)
    /\ filterPc' = IF filterPc = "fetching" THEN "done" ELSE filterPc
    /\ UNCHANGED <<page, starts, typeOptions, searchVars, sessVars,
                   selectedAsset, dashReady, bridgeVars, logVars>>
    /\ UNCHANGED scriptVars

\* A tick of the search command-log timer.
FireSearchCommands(i) ==
    /\ Due(i)
    /\ timers[i].action = "updateSearchCommands"
    /\ timers' = Rearm(timers, i)
    /\ cmdLog' = updateSearchCommands(cmdLog, unseen["search"])
    /\ Polled("search")
    /\ UNCHANGED <<page, starts, filterVars, searchVars, sessVars,
                   selectedAsset, dashReady, bridgeVars>>
    /\ UNCHANGED scriptVars

ClearSearchCommands ==
    /\ page = "search"
    /\ cmdLog' = clearSearchCommands(cmdLog)
    /\ recorded' = [recorded EXCEPT !["search"] = <<>>]
    /\ UNCHANGED <<page, schedVars, filterVars, searchVars, sessVars,
                   selectedAsset, dashReady, bridgeVars, unseen, evClock>>
    /\ UNCHANGED scriptVars

(***************************************************************************)
(* Search page: searching.                                                 *)
(***************************************************************************)
SearchOutcomes == {"assets", "empty", "appError", "throw"}

\* The assets of a response that found some, in the order the backend
\* returns them.
FoundAssets ==
    << [id |-> "well_07", status |-> "operational"],
       [id |-> "pump_12", status |-> "maintenance"] >>

\* The body of a response of /search/assets that carries one.
Response(c, outcome) ==
    CASE outcome = "assets" ->
             [success |-> TRUE, req |-> c.id, assets |-> FoundAssets,
              count |-> Len(FoundAssets)]
      [] outcome = "empty" ->
             [success |-> TRUE, req |-> c.id, assets |-> <<>>, count |-> 0]
      [] outcome = "appError" ->
             [success |-> FALSE, req |-> c.id, error |-> "data.error"]

\* a.status.localeCompare(b.status) < 0, on the statuses in their
\* collation order.
Statuses == <<"maintenance", "operational">>
Rank(status) == CHOOSE i \in DOMAIN Statuses : Statuses[i] = status
Before(a, b, sortOrder) ==
    IF sortOrder = "status-asc" THEN Rank(a.status) < Rank(b.status)
    ELSE Rank(b.status) < Rank(a.status)

\* Array.prototype.sort is stable: an asset goes after those it does not
\* precede.
RECURSIVE insertSorted(_, _, _)
insertSorted(x, s, sortOrder) ==
    IF s = <<>> THEN <<x>>
    ELSE IF Before(x, Head(s), sortOrder) THEN <<x>> \o s
    ELSE <<Head(s)>> \o insertSorted(x, Tail(s), sortOrder)

RECURSIVE sortAssets(_, _)
sortAssets(assets, sortOrder) ==
    IF assets = <<>> THEN <<>>
    ELSE insertSorted(assets[Len(assets)],
                      sortAssets(SubSeq(assets, 1, Len(assets) - 1), sortOrder),
                      sortOrder)

\* A displaySearchResults without the case of no asset.
displaySearchResults_NoEmptyCase(data, sortOrder) ==
    [t |-> "assets", req |-> data.req,
     items |-> IF sortOrder = "none" THEN data.assets
               ELSE sortAssets(data.assets, sortOrder)]

\* displaySearchResults(data) (lines 128-173); sortOrder is the radio
\* checked when it runs (line 137).
displaySearchResults(data, sortOrder) ==
    IF Len(data.assets) = 0 THEN NoAssetsFound
    ELSE [t |-> "assets", req |-> data.req,
          items |-> IF sortOrder = "none" THEN data.assets
                    ELSE sortAssets(data.assets, sortOrder)]

updateSearchSummary(data) ==
    [t |-> "found", req |-> data.req, count |-> data.count]

\* String.prototype.trim on a sequence of characters.
RECURSIVE trimStart(_)
trimStart(s) == IF s # <<>> /\ Head(s) = " " THEN trimStart(Tail(s)) ELSE s

RECURSIVE trimEnd(_)
trimEnd(s) ==
    IF s # <<>> /\ s[Len(s)] = " " THEN trimEnd(SubSeq(s, 1, Len(s) - 1)) ELSE s

trim(s) == trimEnd(trimStart(s))

\* params.append(name, value) when the value is truthy (lines 100-104).
appendIf(params, name, value, empty) ==
    IF value # empty THEN Append(params, <<name, value>>) ELSE params

\* A buildParams that appends the region whatever its value.
buildParams_AlwaysRegion(query, type, manufacturer, status, region) ==
    Append(Append(appendIf(appendIf(appendIf(appendIf(<<>>,
        "q", query, <<>>), "type", type, ""),
        "manufacturer", manufacturer, ""), "status", status, ""),
        <<"region", region>>), <<"limit", "50">>)

\* The URLSearchParams of performSearch (lines 98-105), as the list of its
\* name/value pairs in the order of the appends.
buildParams(query, type, manufacturer, status, region) ==
    Append(appendIf(appendIf(appendIf(appendIf(appendIf(<<>>,
        "q", query, <<>>), "type", type, ""),
        "manufacturer", manufacturer, ""), "status", status, ""),
        "region", region, ""), <<"limit", "50">>)

\* The user types in #search-input.
TypeTerm(text) ==
    /\ page = "search"
    /\ text # inputs.term
    /\ inputs' = [inputs EXCEPT !.term = text]
    /\ UNCHANGED <<page, schedVars, filterVars, sort, request, searchCalls,
                   searchIssued, appliedSearch, results, summary, sessVars,
                   selectedAsset, dashReady, bridgeVars, logVars>>
    /\ UNCHANGED scriptVars

\* The user picks an option of a filter select or radio group.  The
\* options of #type-filter other than the one for all are those loaded by
\* initializeSearchFilters.
ChooseFilter(field, value) ==
    /\ page = "search"
    /\ value # inputs[field]
    /\ field = "type" /\ value # "" => typeOptions
    /\ inputs' = [inputs EXCEPT ![field] = value]
    /\ UNCHANGED <<page, schedVars, filterVars, sort, request, searchCalls,
                   searchIssued, appliedSearch, results, summary, sessVars,
                   selectedAsset, dashReady, bridgeVars, logVars>>
    /\ UNCHANGED scriptVars

\* performSearch() up to its await of the fetch (lines 89-112).  The
\* inputs are taken to exist and one radio of each group to be checked, so
\* that lines 91-96 do not throw.
PerformSearch ==
    /\ page = "search"
    /\ searchIssued < MaxSearches
    /\ results' = Loading
    /\ summary' = Searching
    /\ searchIssued' = searchIssued + 1
    /\ searchCalls' = searchCalls \cup
           {[id |-> searchIssued + 1, sortOrder |-> sort,
             prevSummary |-> summary]}
    /\ request' = buildParams(trim(inputs.term), inputs.type,
                               inputs.manufacturer, inputs.status, inputs.region)
    /\ UNCHANGED <<page, schedVars, filterVars, inputs, sort, appliedSearch,
                   sessVars, selectedAsset, dashReady, bridgeVars, logVars>>
    /\ UNCHANGED scriptVars

\* performSearch() from the resolution of its fetch to its end (lines
\* 112-125).  "throw" is a rejected fetch, a body that is not JSON, or an
\* exception of the rendering functions.
SearchResponse(c, outcome) ==
    /\ page = "search"
    /\ c \in searchCalls
    /\ searchCalls' = searchCalls \ {c}
    /\ appliedSearch' = Max(appliedSearch, c.id)
    /\ IF outcome = "throw"
       THEN /\ results' = ErrorPerformingSearch
            /\ summary' = summary
       ELSE LET data == Response(c, outcome)
            IN  IF data.success
                THEN /\ results' = displaySearchResults(data, sort)
                     /\ summary' = updateSearchSummary(data)
                ELSE /\ results' = ServerError
                     /\ summary' = summary
    /\ UNCHANGED <<page, schedVars, filterVars, inputs, sort, request,
                   searchIssued, sessVars, selectedAsset, dashReady, bridgeVars,
                   logVars>>
    /\ UNCHANGED scriptVars

\* The user checks another radio of input[name="sort"].
SelectSort(s) ==
    /\ page = "search"
    /\ s # sort
    /\ sort' = s
    /\ UNCHANGED <<page, schedVars, filterVars, inputs, request, searchCalls,
                   searchIssued,
                   appliedSearch, results, summary, sessVars, selectedAsset,
                   dashReady, bridgeVars, logVars>>
    /\ UNCHANGED scriptVars

clearSearch ==
    /\ inputs' = EmptyInputs
    /\ sort' = "none"
    /\ results' = ReadyPrompt
    /\ summary' = ReadyPrompt

ClearSearch ==
    /\ page = "search"
    /\ clearSearch
    /\ UNCHANGED <<page, schedVars, filterVars, request, searchCalls,
                   searchIssued,
                   appliedSearch, sessVars, selectedAsset, dashReady,
                   bridgeVars, logVars>>
    /\ UNCHANGED scriptVars

(***************************************************************************)
(* Cross-page selection bridge.                                            *)
(***************************************************************************)
\* A setItem that keeps a value already stored.
setSelection_KeepFirst(store, assetId) == IF store = None THEN assetId ELSE store

\* sessionStorage.setItem('selectedAssetId', assetId)
setSelection(store, assetId) == assetId

\* The destination page reads the item and removes it (clear-on-read).
consumeSelection(store) == [value |-> store, store |-> None]

\* A new document replaces the loaded one.
Unload ==
    /\ timers' = <<>>
    /\ starts' = 0
    /\ FreshFilter
    /\ FreshSearch
    /\ FreshSessions
    /\ selectedAsset' = None
    /\ dashReady' = FALSE

\* The "View on Dashboard" button of a rendered asset is clicked.
ViewAssetOnDashboard(assetId) ==
    /\ page = "search"
    /\ results.t = "assets"
    /\ \E i \in DOMAIN results.items : results.items[i].id = assetId
    /\ storage' = setSelection(storage, assetId)
    /\ lastSet' = assetId
    /\ consumed' = 0
    /\ page' = "dashboard"
    /\ Unload
    /\ UNCHANGED logVars
    /\ UNCHANGED scriptVars

\* The dashboard document is loaded (or reloaded) by hand.
OpenDashboardPage ==
    /\ page' = "dashboard"
    /\ Unload
    /\ UNCHANGED <<bridgeVars, logVars>>
    /\ UNCHANGED scriptVars

\* Initialization of the dashboard document.
ConsumeSelection ==
    /\ page = "dashboard"
    /\ ~dashReady
    /\ consumed < MaxConsumes
    /\ LET r == consumeSelection(storage)
       IN  /\ selectedAsset' = r.value
           /\ storage' = r.store
    /\ dashReady' = TRUE
    /\ consumed' = consumed + 1
    /\ UNCHANGED <<page, schedVars, filterVars, searchVars, sessVars, lastSet,
                   logVars>>
    /\ UNCHANGED scriptVars

(***************************************************************************)
(* Sessions page.                                                          *)
(***************************************************************************)
\* updateSessions() up to its first await (lines 24-27).
\* `shown` is what the metrics elements show at the invocation.
updateSessions(calls, issued, shown) ==
    calls \cup {[id |-> issued + 1, pc |-> "metrics", endpoint |-> "unissued",
                 assetAtStart |-> selectedAsset, prevMetrics |-> shown]}

\* startSessionUpdates() with `ts` the timers active before the call.
startSessionUpdates(ts, calls, issued, shown) ==
    /\ sessCalls' = updateSessions(calls, issued, shown)
    /\ sessIssued' = issued + 1
    /\ cmdLog' = updateSessionCommands(cmdLog, unseen["session"])
    /\ Polled("session")
    /\ timers' = setInterval(setInterval(ts, "updateSessions"),
                             "updateSessionCommands")

\* The sessions document is loaded and its DOMContentLoaded handler runs.
OpenSessionsPage ==
    /\ page' = "sessions"
    /\ starts' = 1
    /\ startSessionUpdates(<<>>, {}, 0, Markup)
    /\ appliedSess' = 0
    /\ sessionList' = Markup
    /\ metrics' = Markup
    /\ FreshFilter
    /\ FreshSearch
    /\ selectedAsset' = None
    /\ dashReady' = FALSE
    /\ UNCHANGED bridgeVars
    /\ UNCHANGED scriptVars

\* A further call of startSessionUpdates() in the loaded document.
StartSessionUpdates ==
    /\ page = "sessions"
    /\ starts < MaxStarts
    /\ sessIssued < MaxSessCalls
    /\ starts' = starts + 1
    /\ startSessionUpdates(timers, sessCalls, sessIssued, metrics)
    /\ UNCHANGED <<page, filterVars, searchVars, appliedSess, sessionList,
                   metrics, selectedAsset, dashReady, bridgeVars>>
    /\ UNCHANGED scriptVars

\* A tick of the sessions timer that issues no fetch while an earlier
\* updateSessions invocation is pending.
FireSessions_SkipWhenBusy(i) ==
    /\ Due(i)
    /\ timers[i].action = "updateSessions"
    /\ sessIssued < MaxSessCalls
    /\ timers' = Rearm(timers, i)
    /\ sessCalls' = IF sessCalls = {}
                    THEN updateSessions(sessCalls, sessIssued, metrics)
                    ELSE sessCalls
    /\ sessIssued' = IF sessCalls = {} THEN sessIssued + 1 ELSE sessIssued
    /\ UNCHANGED <<page, starts, filterVars, searchVars, appliedSess,
                   sessionList, metrics, selectedAsset, dashReady, bridgeVars,
                   logVars>>
    /\ UNCHANGED scriptVars

\* A tick of the sessions timer.
FireSessions(i) ==
    /\ Due(i)
    /\ timers[i].action = "updateSessions"
    /\ sessIssued < MaxSessCalls
    /\ timers' = Rearm(timers, i)
    /\ sessCalls' = updateSessions(sessCalls, sessIssued, metrics)
    /\ sessIssued' = sessIssued + 1
    /\ UNCHANGED <<page, starts, filterVars, searchVars, appliedSess,
                   sessionList, metrics, selectedAsset, dashReady, bridgeVars,
                   logVars>>
    /\ UNCHANGED scriptVars

\* A tick of the session command log that is skipped while an
\* updateSessions invocation is pending.
FireSessionCommands_WhenIdle(i) ==
    /\ Due(i)
    /\ timers[i].action = "updateSessionCommands"
    /\ sessCalls = {}
    /\ timers' = Rearm(timers, i)
    /\ cmdLog' = updateSessionCommands(cmdLog, unseen["session"])
    /\ Polled("session")
    /\ UNCHANGED <<page, starts, filterVars, searchVars, sessVars,
                   selectedAsset, dashReady, bridgeVars>>
    /\ UNCHANGED scriptVars

\* A tick of the session command-log timer.
FireSessionCommands(i) ==
    /\ Due(i)
    /\ timers[i].action = "updateSessionCommands"
    /\ timers' = Rearm(timers, i)
    /\ cmdLog' = updateSessionCommands(cmdLog, unseen["session"])
    /\ Polled("session")
    /\ UNCHANGED <<page, starts, filterVars, searchVars, sessVars,
                   selectedAsset, dashReady, bridgeVars>>
    /\ UNCHANGED scriptVars

MetricsOutcomes == {"ok", "appFail", "throw"}
SessionsOutcomes == {"list", "empty", "appFail", "throw"}

\* An updateSessions that chooses the sessions endpoint from the asset
\* selected when the tick started.
MetricsResponse_EndpointAtStart(c, outcome) ==
    /\ page = "sessions"
    /\ c \in sessCalls
    /\ c.pc = "metrics"
    /\ metrics' = IF outcome = "ok" THEN [t |-> "metrics", req |-> c.id]
                  ELSE metrics
    /\ IF outcome = "throw"
       THEN /\ sessCalls' = sessCalls \ {c}
            /\ sessionList' = ErrorLoadingSessions
       ELSE /\ sessCalls' = (sessCalls \ {c}) \cup
                    {[c EXCEPT !.pc = "sessions", !.endpoint = c.assetAtStart]}
            /\ sessionList' = sessionList
    /\ UNCHANGED <<page, schedVars, filterVars, searchVars, sessIssued,
                   appliedSess, selectedAsset, dashReady, bridgeVars, logVars>>
    /\ UNCHANGED scriptVars

\* updateSessions() from the resolution of the metrics fetch to the await
\* of the sessions fetch (lines 27-41), or to its catch block.  "throw" is
\* a rejected fetch, a body that is not JSON, or a payload without metrics.
MetricsResponse(c, outcome) ==
    /\ page = "sessions"
    /\ c \in sessCalls
    /\ c.pc = "metrics"
    /\ metrics' = IF outcome = "ok" THEN [t |-> "metrics", req |-> c.id]
                  ELSE metrics
    /\ IF outcome = "throw"
       THEN /\ sessCalls' = sessCalls \ {c}
            /\ sessionList' = ErrorLoadingSessions
       ELSE /\ sessCalls' = (sessCalls \ {c}) \cup
                    {[c EXCEPT !.pc = "sessions", !.endpoint = selectedAsset]}
            /\ sessionList' = sessionList
    /\ UNCHANGED <<page, schedVars, filterVars, searchVars, sessIssued,
                   appliedSess, selectedAsset, dashReady, bridgeVars, logVars>>
    /\ UNCHANGED scriptVars

displaySessions(c, sessions) ==
    IF sessions = 0 THEN NoActiveSessions
    ELSE [t |-> "sessions", req |-> c.id, endpoint |-> c.endpoint]

\* An updateSessions whose catch block stops the timer of the channel.
SessionsResponse_StopOnError(c, outcome) ==
    /\ page = "sessions"
    /\ c \in sessCalls
    /\ c.pc = "sessions"
    /\ sessCalls' = sessCalls \ {c}
    /\ sessionList' =
           CASE outcome = "list" -> displaySessions(c, 1)
             [] outcome = "empty" -> displaySessions(c, 0)
             [] outcome = "appFail" -> sessionList
             [] outcome = "throw" -> ErrorLoadingSessions
    /\ appliedSess' = IF outcome = "appFail" THEN appliedSess
                      ELSE Max(appliedSess, c.id)
    /\ timers' = IF outcome = "throw" THEN clearTimeout(timers, "updateSessions")
                 ELSE timers
    /\ UNCHANGED <<page, starts, filterVars, searchVars, sessIssued,
                   metrics, selectedAsset, dashReady, bridgeVars, logVars>>
    /\ UNCHANGED scriptVars

\* updateSessions() from the resolution of the sessions fetch to its end
\* (lines 41-50).  "throw" is a rejected fetch, a body that is not JSON, or
\* an exception of displaySessions.
SessionsResponse(c, outcome) ==
    /\ page = "sessions"
    /\ c \in sessCalls
    /\ c.pc = "sessions"
    /\ sessCalls' = sessCalls \ {c}
    /\ sessionList' =
           CASE outcome = "list" -> displaySessions(c, 1)
             [] outcome = "empty" -> displaySessions(c, 0)
             [] outcome = "appFail" -> sessionList
             [] outcome = "throw" -> ErrorLoadingSessions
    /\ appliedSess' = IF outcome = "appFail" THEN appliedSess
                      ELSE Max(appliedSess, c.id)
    /\ UNCHANGED <<page, schedVars, filterVars, searchVars, sessIssued,
                   metrics, selectedAsset, dashReady, bridgeVars, logVars>>
    /\ UNCHANGED scriptVars

\* The global selectedAsset is assigned by code outside these scripts.
SelectAsset(a) ==
    /\ page = "sessions"
    /\ a # selectedAsset
    /\ selectedAsset' = a
    /\ UNCHANGED <<page, schedVars, filterVars, searchVars, sessVars,
                   dashReady, bridgeVars, logVars>>
    /\ UNCHANGED scriptVars

ClearSessionCommands ==
    /\ page = "sessions"
    /\ cmdLog' = clearSessionCommands(cmdLog)
    /\ recorded' = [recorded EXCEPT !["session"] = <<>>]
    /\ UNCHANGED <<page, schedVars, filterVars, searchVars, sessVars,
                   selectedAsset, dashReady, bridgeVars, unseen, evClock>>
    /\ UNCHANGED scriptVars

(***************************************************************************)
(* push_to_github.sh (SETUP_SUMMARY.md, lines 153-322).  The script runs   *)
(* under set -e: a command that fails outside a condition ends the script  *)
(* with the status of that command.                                        *)
(***************************************************************************)
WorkFiles == {".env", "README.md", "config/prod.env"}

\* Contents of .gitignore, line by line.
GitignoreFiles ==
    {<<>>, <<"*.log">>, <<".env">>, <<".env", "*.log">>, <<".env*">>,
     <<".env", "!.env">>, <<"!.env", ".env">>}

Replies == {"y", "Y", "n", ""}

\* grep -q "^\.env$" .gitignore
grepEnvLine(lines) == \E i \in DOMAIN lines : lines[i] = ".env"

\* Whether a pattern of .gitignore, without its leading "!", matches a path.
PatternMatches(pattern, path) ==
    CASE pattern \in {".env", "!.env", ".env*"} -> path = ".env"
      [] OTHER -> FALSE

\* git's rule: the last line that matches a path decides, and a line that
\* starts with "!" takes the path out of the ignored ones.
RECURSIVE Ignored(_, _)
Ignored(lines, path) ==
    IF lines = <<>> THEN FALSE
    ELSE LET last == lines[Len(lines)]
         IN  IF PatternMatches(last, path) THEN last # "!.env"
             ELSE Ignored(SubSeq(lines, 1, Len(lines) - 1), path)

\* git add .
gitAdd(staged, files, lines) ==
    staged \cup {p \in files : ~Ignored(lines, p)}

\* git status --short | grep -q "\.env$", every file being staged or
\* ignored after git add.
EndsWithEnv(path) == path \in {".env", "config/prod.env"}
grepEnvStaged(staged) == \E p \in staged : EndsWithEnv(p)

Exit(status) ==
    /\ scriptPc' = "exited"
    /\ exitStatus' = status

\* ./push_to_github.sh is run in a directory with the files `files`, the
\* .gitignore `ignore` and the paths `staged` already in the index.
RunPushScript(files, ignore, staged) ==
    /\ scriptPc \in {"idle", "exited"}
    /\ scriptPc' = "step1"
    /\ worktree' = files
    /\ gitignore' = ignore
    /\ index' = staged
    /\ committed' = FALSE
    /\ pushed' = FALSE
    /\ reply' = ""
    /\ exitStatus' = "none"
    /\ UNCHANGED browserVars

\* Step 1 (lines 175-196).
Step1Verify ==
    /\ scriptPc = "step1"
    /\ IF ".env" \notin worktree THEN Exit("1")
       ELSE IF ~gitignore.exists THEN Exit("1")
       ELSE IF ~grepEnvLine(gitignore.lines) THEN Exit("1")
       ELSE scriptPc' = "step2" /\ exitStatus' = exitStatus
    /\ UNCHANGED <<browserVars, worktree, gitignore, index, committed, pushed,
                   reply>>

\* Steps 2 to 4 (lines 198-252): git init, git config and git remote; `ok`
\* is whether all the commands that ran succeeded.
Step2to4Configure(ok) ==
    /\ scriptPc = "step2"
    /\ IF ok THEN scriptPc' = "step5" /\ exitStatus' = exitStatus
       ELSE Exit("command")
    /\ UNCHANGED <<browserVars, worktree, gitignore, index, committed, pushed,
                   reply>>

\* A step 5 that does not look for .env among the staged paths.
Step5Stage_NoCheck ==
    /\ scriptPc = "step5"
    /\ index' = gitAdd(index, worktree, gitignore.lines)
    /\ scriptPc' = "step6"
    /\ UNCHANGED <<browserVars, worktree, gitignore, committed, pushed, reply,
                   exitStatus>>

\* Step 5 (lines 254-272): git add . and the check of what is staged.
Step5Stage ==
    /\ scriptPc = "step5"
    /\ index' = gitAdd(index, worktree, gitignore.lines)
    /\ IF grepEnvStaged(index') THEN Exit("1")
       ELSE scriptPc' = "step6" /\ exitStatus' = exitStatus
    /\ UNCHANGED <<browserVars, worktree, gitignore, committed, pushed, reply>>

\* Step 6 (lines 274-287): git commit, which fails when nothing is staged
\* and may fail for other reasons.
Step6Commit(ok) ==
    /\ scriptPc = "step6"
    /\ IF ok /\ index # {}
       THEN /\ committed' = TRUE
            /\ index' = {}
            /\ scriptPc' = "step7"
            /\ exitStatus' = exitStatus
       ELSE /\ Exit("command")
            /\ UNCHANGED <<committed, index>>
    /\ UNCHANGED <<browserVars, worktree, gitignore, pushed, reply>>

\* Step 7 (lines 289-322): the confirmation is read and, on y or Y, the
\* branch is renamed and pushed; `ok` is whether git branch -M succeeded.
Step7Push(answer, ok) ==
    /\ scriptPc = "step7"
    /\ reply' = answer
    /\ IF answer \in {"y", "Y"}
       THEN IF ok THEN pushed' = TRUE /\ Exit("0")
            ELSE pushed' = pushed /\ Exit("command")
       ELSE pushed' = pushed /\ Exit("0")
    /\ UNCHANGED <<browserVars, worktree, gitignore, index, committed>>

\* A run of push_to_github.sh, in any directory.
PushNext ==
    \/ \E files \in SUBSET WorkFiles, exists \in BOOLEAN,
          lines \in GitignoreFiles, staged \in SUBSET {".env"} :
           /\ exists \/ lines = <<>>
           /\ RunPushScript(files, [exists |-> exists, lines |-> lines], staged)
    \/ Step1Verify
    \/ \E ok \in BOOLEAN : Step2to4Configure(ok)
    \/ Step5Stage
    \/ \E ok \in BOOLEAN : Step6Commit(ok)
    \/ \E answer \in Replies, ok \in BOOLEAN : Step7Push(answer, ok)

(***************************************************************************)
(* The browser.                                                            *)
(***************************************************************************)
Next ==
    \/ OpenSearchPage
    \/ OpenSessionsPage
    \/ OpenDashboardPage
    \/ StartSearchUpdates
    \/ StartSessionUpdates
    \/ Advance
    \/ \E i \in DOMAIN timers : FireSearchCommands(i)
    \/ \E i \in DOMAIN timers : FireSessions(i)
    \/ \E i \in DOMAIN timers : FireSessionCommands(i)
    \/ \E i \in DOMAIN timers : FireAbort(i)
    \/ \E ok \in BOOLEAN : FilterHeaders(ok)
    \/ \E o \in {"options", "empty", "throw"} : FilterBody(o)
    \/ FilterFetchFails
    \/ PerformSearch
    \/ \E c \in searchCalls, o \in SearchOutcomes : SearchResponse(c, o)
    \/ \E s \in SortOrders : SelectSort(s)
    \/ \E text \in Terms : TypeTerm(text)
    \/ \E f \in Fields : \E v \in Choices(f) : ChooseFilter(f, v)
    \/ ClearSearch
    \/ ClearSearchCommands
    \/ \E a \in AssetIds : ViewAssetOnDashboard(a)
    \/ ConsumeSelection
    \/ \E c \in sessCalls, o \in MetricsOutcomes : MetricsResponse(c, o)
    \/ \E c \in sessCalls, o \in SessionsOutcomes : SessionsResponse(c, o)
    \/ \E a \in AssetIds \cup {None} : SelectAsset(a)
    \/ ClearSessionCommands
    \/ \E ch \in Channels : \E k \in Kinds(ch) : BackendCommand(ch, k)
    \/ PushNext

Spec == Init /\ [][Next]_vars

(***************************************************************************)
(* Parts of the browser.  The reachable states of Spec are too many to     *)
(* enumerate, so each property is checked under the part of the system     *)
(* that can affect it: the same handlers, with the user and the backend    *)
(* restricted to the events named.                                         *)
(***************************************************************************)
SearchTimers ==
    \/ \E i \in DOMAIN timers : FireSearchCommands(i)
    \/ \E i \in DOMAIN timers : FireAbort(i)

SessionsTimers ==
    \/ \E i \in DOMAIN timers : FireSessions(i)
    \/ \E i \in DOMAIN timers : FireSessionCommands(i)

\* Both pages with their timers and fetches; the filters are left to
\* their timeout and the backend executes no commands.
RaceNext ==
    \/ OpenSearchPage
    \/ OpenSessionsPage
    \/ Advance
    \/ SearchTimers
    \/ SessionsTimers
    \/ PerformSearch
    \/ \E c \in searchCalls, o \in SearchOutcomes : SearchResponse(c, o)
    \/ \E c \in sessCalls, o \in MetricsOutcomes : MetricsResponse(c, o)
    \/ \E c \in sessCalls, o \in SessionsOutcomes : SessionsResponse(c, o)

RaceSpec == Init /\ [][RaceNext]_vars

\* Both pages with their timers and repeated start calls.
StartNext ==
    \/ OpenSearchPage
    \/ OpenSessionsPage
    \/ StartSearchUpdates
    \/ StartSessionUpdates
    \/ Advance
    \/ SearchTimers
    \/ SessionsTimers
    \/ \E c \in sessCalls, o \in MetricsOutcomes : MetricsResponse(c, o)
    \/ \E c \in sessCalls, o \in SessionsOutcomes : SessionsResponse(c, o)

StartSpec == Init /\ [][StartNext]_vars

\* The search page alone.  Timers fire when they are due and time does
\* not stop; nothing obliges the backend to answer or the user to act.
LiveNext ==
    \/ OpenSearchPage
    \/ Advance
    \/ SearchTimers
    \/ \E ok \in BOOLEAN : FilterHeaders(ok)
    \/ \E o \in {"options", "empty", "throw"} : FilterBody(o)
    \/ FilterFetchFails
    \/ PerformSearch
    \/ \E c \in searchCalls, o \in SearchOutcomes : SearchResponse(c, o)

LiveSpec ==
    /\ Init
    /\ [][LiveNext]_vars
    /\ WF_vars(Advance)
    /\ WF_vars(\E i \in DOMAIN timers : FireSearchCommands(i))
    /\ WF_vars(\E i \in DOMAIN timers : FireAbort(i))

\* The command log tracker under every interleaving of backend commands,
\* polls of both pages and clears.
LogNext ==
    \/ OpenSearchPage
    \/ OpenSessionsPage
    \/ Advance
    \/ SearchTimers
    \/ SessionsTimers
    \/ ClearSearchCommands
    \/ ClearSessionCommands
    \/ \E ch \in Channels : \E k \in Kinds(ch) : BackendCommand(ch, k)

LogSpec == Init /\ [][LogNext]_vars

\* The search page, the dashboard and the selection carried between them.
BridgeNext ==
    \/ OpenSearchPage
    \/ OpenDashboardPage
    \/ Advance
    \/ SearchTimers
    \/ PerformSearch
    \/ \E c \in searchCalls, o \in SearchOutcomes : SearchResponse(c, o)
    \/ \E a \in AssetIds : ViewAssetOnDashboard(a)
    \/ ConsumeSelection

BridgeSpec == Init /\ [][BridgeNext]_vars

\* The sessions page: its timers, repeated start calls and the fetches of
\* updateSessions with every outcome.  The selection of an asset and the
\* backend's commands change neither the timers nor the pending fetches
\* and are left out.
SessionsNext ==
    \/ OpenSessionsPage
    \/ StartSessionUpdates
    \/ Advance
    \/ SessionsTimers
    \/ \E c \in sessCalls, o \in MetricsOutcomes : MetricsResponse(c, o)
    \/ \E c \in sessCalls, o \in SessionsOutcomes : SessionsResponse(c, o)

SessionsSpec == Init /\ [][SessionsNext]_vars

\* The search form: the filters load or fail to load, the user fills the
\* form in, searches and clears.  No response arrives and no timer fires.
ParamsNext ==
    \/ OpenSearchPage
    \/ \E ok \in BOOLEAN : FilterHeaders(ok)
    \/ \E o \in {"options", "empty", "throw"} : FilterBody(o)
    \/ FilterFetchFails
    \/ \E text \in Terms : TypeTerm(text)
    \/ \E f \in Fields : \E v \in Choices(f) : ChooseFilter(f, v)
    \/ PerformSearch
    \/ ClearSearch

ParamsSpec == Init /\ [][ParamsNext]_vars

\* The search form in use: the user sorts, searches and clears while
\* responses arrive in any order.  No timer fires.
FormNext ==
    \/ OpenSearchPage
    \/ \E s \in SortOrders : SelectSort(s)
    \/ PerformSearch
    \/ \E c \in searchCalls, o \in SearchOutcomes : SearchResponse(c, o)
    \/ ClearSearch

FormSpec == Init /\ [][FormNext]_vars

\* The sessions page while the selection changes between no asset and one
\* asset: its timers and the fetches of updateSessions with every outcome.
AssetNext ==
    \/ OpenSessionsPage
    \/ Advance
    \/ SessionsTimers
    \/ \E a \in {"well_07", None} : SelectAsset(a)
    \/ \E c \in sessCalls, o \in MetricsOutcomes : MetricsResponse(c, o)
    \/ \E c \in sessCalls, o \in SessionsOutcomes : SessionsResponse(c, o)

AssetSpec == Init /\ [][AssetNext]_vars

\* push_to_github.sh alone.
PushSpec == Init /\ [][PushNext]_vars

(***************************************************************************)
(* Properties.                                                             *)
(***************************************************************************)
FailedSearch == {"appError", "throw"}

IntervalActions == {"updateSearchCommands", "updateSessions", "updateSessionCommands"}

TimersOf(action) == {i \in DOMAIN timers : timers[i].action = action}

\* C1 (discard-stale): when the response of a performSearch invocation
\* arrives after the response of a later invocation has been applied,
\* applying it leaves the results pane and the summary as they are; when
\* the sessions response of an updateSessions tick arrives after that of a
\* later tick has been applied, it leaves the session list as it is.
C1_DiscardStale ==
    [][/\ \A c \in searchCalls, o \in SearchOutcomes :
             (c.id < appliedSearch /\ SearchResponse(c, o))
                 => (results' = results /\ summary' = summary)
       /\ \A c \in sessCalls, o \in SessionsOutcomes :
             (c.id < appliedSess /\ SessionsResponse(c, o))
                 => sessionList' = sessionList]_vars

\* C2: a fetch that fails after the response of a later-issued fetch of
\* its channel has been applied does not put an error placeholder in the
\* place of the newer result.
C2_StaleFailureDiscarded ==
    [][/\ \A c \in searchCalls, o \in FailedSearch :
             (c.id < appliedSearch /\ SearchResponse(c, o))
                 => results' = results
       /\ \A c \in sessCalls :
             (c.id < appliedSess
                 /\ (MetricsResponse(c, "throw") \/ SessionsResponse(c, "throw")))
                 => sessionList' = sessionList]_vars

\* C3 (idempotent start): in every reachable state, also after repeated
\* start calls, each refresh action has at most one active repeating timer.
C3_OneTimerPerChannel ==
    \A a \in IntervalActions : Cardinality(TimersOf(a)) <= 1

\* C4: every fetch is bounded by a timeout: a results pane in its loading
\* state eventually leaves it, and a pending filter initialization
\* eventually ends, also when the backend never answers.
C4_EveryFetchTimesOut ==
    /\ (results = Loading) ~> (results # Loading)
    /\ (filterPc \in {"fetching", "reading"}) ~> (filterPc = "done")

\* C5: a failed fetch shows an error placeholder and leaves the rest of
\* the visible state (the summary, the session metrics) as it was when
\* the refresh started.
C5_FailurePreservesState ==
    [][/\ \A c \in searchCalls, o \in FailedSearch :
             SearchResponse(c, o)
                 => (results'.t = "error" /\ summary' = c.prevSummary)
       /\ \A c \in sessCalls :
             (\/ MetricsResponse(c, "throw")
              \/ SessionsResponse(c, "throw")
              \/ SessionsResponse(c, "appFail"))
                 => (sessionList' = ErrorLoadingSessions
                        /\ metrics' = c.prevMetrics)]_vars

RECURSIVE SumOver(_, _)
SumOver(f, S) ==
    IF S = {} THEN 0
    ELSE LET k == CHOOSE x \in S : TRUE
         IN  f[k] + SumOver(f, S \ {k})

\* C6: for each channel, total is the number of events recorded since the
\* last clear and the sum of the per-kind counts, whatever has been
\* evicted from the history.
C6_CountersCumulative ==
    \A ch \in Channels :
        /\ cmdLog[ch].total = Len(recorded[ch])
        /\ cmdLog[ch].total =
               SumOver(cmdLog[ch].countsByKind, DOMAIN cmdLog[ch].countsByKind)

\* More events have been recorded than the history retains.
C6_Witness ==
    \E ch \in Channels :
        /\ Len(recorded[ch]) > HistoryLimit
        /\ cmdLog[ch].total > Len(cmdLog[ch].history)

LastN(q, n) == SubSeq(q, (IF Len(q) > n THEN Len(q) - n ELSE 0) + 1, Len(q))

\* C7: the history of each channel holds at most HistoryLimit events, and
\* they are the most recently recorded ones in recording order.
C7_HistoryBounded ==
    \A ch \in Channels :
        /\ Len(cmdLog[ch].history) <= HistoryLimit
        /\ cmdLog[ch].history = LastN(recorded[ch], HistoryLimit)

\* An event has been evicted: the oldest recorded event is gone and the
\* history is full.
C7_Witness ==
    \E ch \in Channels :
        /\ Len(recorded[ch]) = HistoryLimit + 1
        /\ Len(cmdLog[ch].history) = HistoryLimit
        /\ Head(cmdLog[ch].history) = recorded[ch][2]

Cleared(log) ==
    /\ log.total = 0
    /\ DOMAIN log.countsByKind = {}
    /\ log.history = <<>>

\* C8: a clear of one channel leaves that channel with total 0, no
\* per-kind counts and no history, and leaves the other channel's history
\* and counters as they are.
C8_ClearResetsOneChannel ==
    [][/\ ClearSearchCommands
            => (Cleared(cmdLog'["search"])
                   /\ cmdLog'["session"] = cmdLog["session"])
       /\ ClearSessionCommands
            => (Cleared(cmdLog'["session"])
                   /\ cmdLog'["search"] = cmdLog["search"])]_vars

\* The search channel has been cleared after it had recorded the second
\* and third command, while the session channel still holds the first.
C8_Witness ==
    /\ evClock = 3
    /\ unseen = [c \in Channels |-> <<>>]
    /\ Cleared(cmdLog["search"])
    /\ cmdLog["session"].total = 1
    /\ recorded["session"] = <<[kind |-> "read", timestamp |-> 1]>>

\* C9 (selection handoff): the first consumeSelection after a setSelection
\* returns the asset id of the most recent setSelection, a further one
\* returns "none".
C9_SelectionHandoff ==
    (page = "dashboard" /\ dashReady) =>
        /\ consumed = 1 => selectedAsset = lastSet
        /\ consumed >= 2 => selectedAsset = None

\* The dashboard has been reloaded after it consumed a selection.
C9_Witness ==
    /\ page = "dashboard"
    /\ dashReady
    /\ consumed = 2
    /\ lastSet \in AssetIds
    /\ selectedAsset = None

\* C10 (channel independence): on the sessions page both refresh actions
\* keep their timers whatever the state of the other one; a due tick of the
\* command log can fire while updateSessions is pending or has failed, a due
\* tick of updateSessions can fire whatever the command log did, and
\* pending fetches do not stop time.
C10_ChannelsIndependent ==
    page = "sessions" =>
        /\ TimersOf("updateSessionCommands") # {}
        /\ TimersOf("updateSessions") # {}
        /\ \A i \in TimersOf("updateSessionCommands") :
               Due(i) => ENABLED FireSessionCommands(i)
        /\ \A i \in TimersOf("updateSessions") :
               (Due(i) /\ sessIssued < MaxSessCalls) => ENABLED FireSessions(i)
        /\ (\A i \in DOMAIN timers : ~Due(i)) => ENABLED Advance

\* A tick of the command log is due while one updateSessions invocation is
\* pending and an earlier one has failed.
C10_Witness ==
    /\ page = "sessions"
    /\ sessCalls # {}
    /\ sessionList = ErrorLoadingSessions
    /\ \E i \in TimersOf("updateSessionCommands") : Due(i)

ParamNames(params) == {params[i][1] : i \in DOMAIN params}

\* C11: the request built by performSearch holds a parameter q exactly
\* when the trimmed term is non-empty, a parameter for each of type,
\* manufacturer, status and region exactly when that value is non-empty,
\* always limit=50, each once, with the value of the form, and nothing
\* else; the term pump with the type compressor give
\* q=pump&type=compressor&limit=50.
C11_RequestParameters ==
    [][PerformSearch =>
          LET q == trim(inputs.term)
              r == request'
          IN  /\ ParamNames(r) =
                     {"limit"} \cup (IF q # <<>> THEN {"q"} ELSE {})
                               \cup {f \in Fields : inputs[f] # ""}
              /\ Len(r) = Cardinality(ParamNames(r))
              /\ \A i \in DOMAIN r :
                     /\ r[i][1] = "q" => r[i][2] = q
                     /\ r[i][1] = "limit" => r[i][2] = "50"
                     /\ r[i][1] \in Fields => r[i][2] = inputs[r[i][1]]
              /\ (/\ q = Pump
                  /\ inputs.type = "compressor"
                  /\ \A f \in Fields \ {"type"} : inputs[f] = "")
                     => r = << <<"q", Pump>>, <<"type", "compressor">>,
                               <<"limit", "50">> >>]_vars

\* The request q=pump&type=compressor&limit=50 has been built from a term
\* typed with blanks around it.
C11_Witness ==
    /\ request = << <<"q", Pump>>, <<"type", "compressor">>, <<"limit", "50">> >>
    /\ inputs.term = <<" ">> \o Pump \o <<" ">>
    /\ searchIssued > 0

\* C12: the response of a search that succeeds with count 0 puts the
\* message that no assets were found in the results pane and the found
\* line in the summary; neither shows an error message.
C12_EmptyResultNotError ==
    [][\A c \in searchCalls, o \in SearchOutcomes \ {"throw"} :
          (/\ SearchResponse(c, o)
           /\ Response(c, o).success
           /\ Response(c, o).count = 0)
              => /\ results' = NoAssetsFound
                 /\ results'.t # "error"
                 /\ summary'.t = "found"]_vars

\* An empty successful response has been rendered.
C12_Witness ==
    /\ page = "search"
    /\ results = NoAssetsFound
    /\ summary.t = "found"
    /\ summary.count = 0

FailedMetrics == {"appFail", "throw"}
FailedSessions == {"appFail", "throw"}

\* C13: no failure stops the polling.  A failed search, a failed metrics
\* fetch and a failed sessions fetch leave every timer as it was, so the
\* timer of the channel stays active and its next tick is no further away
\* than the normal interval; every tick of updateSessions, whatever has
\* failed before, issues a new fetch and is re-armed at the normal
\* interval.
C13_FailureKeepsPolling ==
    [][/\ \A c \in searchCalls, o \in FailedSearch :
             SearchResponse(c, o)
                 => (timers' = timers /\ TimersOf("updateSearchCommands") # {})
       /\ \A c \in sessCalls :
             (\/ \E o \in FailedMetrics : MetricsResponse(c, o)
              \/ \E o \in FailedSessions : SessionsResponse(c, o))
                 => /\ timers' = timers
                    /\ \E i \in DOMAIN timers' :
                           /\ timers'[i].action = "updateSessions"
                           /\ timers'[i].remaining <= SessionsInterval
       /\ \A i \in DOMAIN timers :
             FireSessions(i)
                 => /\ timers'[i].remaining = SessionsInterval
                    /\ \E c \in sessCalls' \ sessCalls :
                           c.id = sessIssued + 1 /\ c.pc = "metrics"]_vars

\* After a failed refresh of the session list, with nothing in flight, the
\* tick of updateSessions is due.
C13_Witness ==
    /\ page = "sessions"
    /\ sessionList = ErrorLoadingSessions
    /\ sessCalls = {}
    /\ sessIssued < MaxSessCalls
    /\ \E i \in TimersOf("updateSessions") : Due(i)

FreshlyArmed(ts) ==
    \A i \in DOMAIN ts :
        ts[i].action \in IntervalActions
            => ts[i].remaining = Interval(ts[i].action)

\* C14: starting a channel runs its action once at once and then once per
\* interval.  The load of the search page has polled the search commands
\* and the load of the sessions page has issued the first updateSessions
\* fetch and polled the session commands, while every interval timer still
\* has its whole interval to run; a tick happens only when its timer has
\* run out and re-arms it for one interval.
C14_ImmediateThenPeriodic ==
    [][/\ OpenSearchPage
             => /\ unseen'["search"] = <<>>
                /\ cmdLog'["search"].total =
                       cmdLog["search"].total + Len(unseen["search"])
                /\ Cardinality({i \in DOMAIN timers' :
                       timers'[i].action = "updateSearchCommands"}) = 1
                /\ FreshlyArmed(timers')
       /\ OpenSessionsPage
             => /\ sessIssued' = 1
                /\ \E c \in sessCalls' : c.id = 1 /\ c.pc = "metrics"
                /\ unseen'["session"] = <<>>
                /\ cmdLog'["session"].total =
                       cmdLog["session"].total + Len(unseen["session"])
                /\ {timers'[i].action : i \in DOMAIN timers'} =
                       {"updateSessions", "updateSessionCommands"}
                /\ FreshlyArmed(timers')
       /\ \A i \in DOMAIN timers :
             (FireSearchCommands(i) \/ FireSessions(i) \/ FireSessionCommands(i))
                 => /\ timers[i].remaining = 0
                    /\ timers'[i].remaining = Interval(timers[i].action)]_vars

\* The sessions page has just been loaded: the first updateSessions fetch
\* is in flight, the commands executed before the load are in the session
\* log, and no timer has run any part of its interval.
C14_Witness ==
    /\ page = "sessions"
    /\ sessIssued = 1
    /\ \E c \in sessCalls : c.id = 1 /\ c.pc = "metrics"
    /\ cmdLog["session"].total > 0
    /\ timers # <<>>
    /\ FreshlyArmed(timers)

\* C15 (tick overlap): a due tick of updateSessions can fire while fetches
\* of earlier ticks are unresolved, and firing it adds a new fetch to those
\* in flight without removing or holding back any of them.
C15_TicksOverlap ==
    [][\A i \in TimersOf("updateSessions") :
          /\ (Due(i) /\ sessCalls # {} /\ sessIssued < MaxSessCalls)
                 => ENABLED FireSessions(i)
          /\ FireSessions(i)
                 => /\ sessCalls \subseteq sessCalls'
                    /\ Cardinality(sessCalls') = Cardinality(sessCalls) + 1
                    /\ \E c \in sessCalls' \ sessCalls : c.pc = "metrics"]_vars

\* Two updateSessions invocations of one document are in flight at once.
C15_Witness ==
    /\ page = "sessions"
    /\ \E c, d \in sessCalls : c.id < d.id
    /\ starts = 1

\* C16: a response without success:true is an application failure on
\* every fetch path: for performSearch and for the metrics fetch and the
\* sessions fetch of updateSessions, applying it shows an error message
\* that carries the server's error text and differs from the message of a
\* transport failure.
C16_AppFailureVisible ==
    [][/\ \A c \in searchCalls :
             SearchResponse(c, "appError")
                 => /\ results' = ServerError
                    /\ results' # ErrorPerformingSearch
       /\ \A c \in sessCalls :
             (MetricsResponse(c, "appFail") \/ SessionsResponse(c, "appFail"))
                 => /\ sessionList'.t = "error"
                    /\ sessionList' # ErrorLoadingSessions]_vars

IsPoll(timer) == timer.action \in IntervalActions

\* The suggestions of the field are not loaded: a timeout, a status that
\* is not OK, an empty list, a missing select element or another exception.
FilterFieldFails ==
    \/ \E i \in DOMAIN timers : filterPc = "fetching" /\ FireAbort(i)
    \/ FilterHeaders(FALSE)
    \/ FilterBody("empty")
    \/ FilterBody("throw")
    \/ FilterFetchFails

\* C17: the initialization of the filters degrades per field and holds
\* nothing up.  The load of the page starts the polling while the
\* suggestions fetch is still pending; a field that fails to load ends the
\* pass over it with the select as it was, no message in the results pane
\* or the summary and the polling timers untouched; a field that loads
\* gets its options.
C17_FiltersDegrade ==
    [][/\ OpenSearchPage
             => /\ filterPc' = "fetching"
                /\ \E i \in DOMAIN timers' :
                       timers'[i].action = "updateSearchCommands"
       /\ FilterFieldFails
             => /\ filterPc' = "done"
                /\ typeOptions' = typeOptions
                /\ page' = page
                /\ results' = results /\ summary' = summary
                /\ SelectSeq(timers', IsPoll) = SelectSeq(timers, IsPoll)
       /\ FilterBody("options") => (filterPc' = "done" /\ typeOptions')]_vars

\* The type filter has failed to load and a search has been made and
\* rendered all the same, with the polling timer running.
C17_Witness ==
    /\ page = "search"
    /\ filterPc = "done"
    /\ ~typeOptions
    /\ results.t = "assets"
    /\ TimersOf("updateSearchCommands") # {}

\* C18: the results of a search are rendered in the sort order that was
\* selected when the search was invoked, also when the user has selected
\* another one while the search was in flight.
C18_SortOfInvocation ==
    [][\A c \in searchCalls :
          SearchResponse(c, "assets")
              => results' = displaySearchResults(Response(c, "assets"),
                                                 c.sortOrder)]_vars

\* C19: once clearSearch has put the ready prompt in the results pane and
\* in the summary, both keep it until performSearch is invoked again (or
\* the page is loaded anew), also when a search issued before the clear
\* resolves after it.
C19_ClearedStaysCleared ==
    [][(/\ results = ReadyPrompt
        /\ summary = ReadyPrompt
        /\ ~PerformSearch
        /\ ~OpenSearchPage)
           => (results' = ReadyPrompt /\ summary' = ReadyPrompt)]_vars

\* C20: when a performSearch invocation has finished and none is in
\* flight, neither the results pane nor the summary shows the loading
\* text.
C20_NoLoadingWhenIdle ==
    (page = "search" /\ searchIssued > 0 /\ searchCalls = {})
        => (results # Loading /\ summary # Searching)

\* C21: within one updateSessions invocation no sessions fetch exists
\* while the metrics fetch is pending; when the metrics fetch resolves the
\* sessions fetch is issued to the endpoint of the asset selected at that
\* moment; when the metrics fetch throws the invocation ends without a
\* sessions fetch and the session list shows the error placeholder.
C21_SessionsAfterMetrics ==
    [][/\ \A c \in sessCalls' : c.pc = "metrics" => c.endpoint = "unissued"
       /\ \A c \in sessCalls :
             /\ \A o \in MetricsOutcomes \ {"throw"} :
                    MetricsResponse(c, o)
                        => \E d \in sessCalls' :
                               /\ d.id = c.id
                               /\ d.pc = "sessions"
                               /\ d.endpoint = selectedAsset
             /\ MetricsResponse(c, "throw")
                    => /\ \A d \in sessCalls' : d.id # c.id
                       /\ sessionList' = ErrorLoadingSessions]_vars

\* A sessions fetch is in flight to the endpoint of an asset that was
\* selected after its tick had started.
C21_Witness ==
    /\ page = "sessions"
    /\ \E c \in sessCalls :
           /\ c.pc = "sessions"
           /\ c.endpoint # c.assetAtStart
           /\ c.endpoint = selectedAsset

\* The directory is not fit for a push: .env or .gitignore is missing, or
\* no line of .gitignore is .env.
Unverified ==
    \/ ".env" \notin worktree
    \/ ~gitignore.exists
    \/ \A i \in DOMAIN gitignore.lines : gitignore.lines[i] # ".env"

\* C22: the push script leaves step 1 only by exiting with an error when
\* .env is missing, .gitignore is missing or .env is not listed in
\* .gitignore, and leaves step 5 only by exiting with an error when .env
\* is staged; it creates a commit only in a verified directory with .env
\* not staged, and runs git push only after it has created the commit and
\* the confirmation was answered y (in either case).
C22_PushGuarded ==
    [][/\ (scriptPc = "step1" /\ scriptPc' # "step1" /\ Unverified)
             => (scriptPc' = "exited" /\ exitStatus' = "1")
       /\ (scriptPc = "step5" /\ scriptPc' # "step5" /\ ".env" \in index')
             => (scriptPc' = "exited" /\ exitStatus' = "1")
       /\ (scriptPc' = "exited" /\ exitStatus' = "1")
             => (~committed' /\ ~pushed')
       /\ (committed' /\ ~committed)
             => (~Unverified /\ ".env" \notin index)
       /\ (pushed' /\ ~pushed)
             => (committed /\ ~Unverified /\ reply' \in {"y", "Y"})]_vars

\* The script has committed and, on the answer y, pushed, in a directory
\* whose .env is ignored.
C22_Witness ==
    /\ scriptPc = "exited"
    /\ exitStatus = "0"
    /\ committed
    /\ pushed
    /\ reply = "y"
    /\ ".env" \in worktree

====
